---- MODULE Spec2Model ----
(***************************************************************************)
(* Depth-interval derivation (calcDepthStartEndFromCenter), continuity     *)
(* validation (checkDepthStartEnd) and range grouping                      *)
(* (groupByDepthStartEnd) of w-geo, as a state machine: one call per       *)
(* behaviour, the loops that write results taken one iteration at a time.  *)
(*                                                                         *)
(* Values.  A JavaScript value read from a record field is a record        *)
(* [t, n]: t = "num" a number n, t = "str" a numeric string whose Number() *)
(* is n, t = "bad" a value that is no number ('abc'), t = "null" null,     *)
(* t = "absent" a field never written.  Depths are drawn from even         *)
(* integers, so that (a + b) / 2 is exact in the integers as it is in      *)
(* doubles of this size.                                                   *)
(*                                                                         *)
(* Indices.  Sequences here are 1-based; every index an error message      *)
(* cites is the JavaScript (0-based) loop index computed as the code       *)
(* computes it.                                                            *)
(***************************************************************************)
EXTENDS Integers, Sequences, FiniteSets, TLC

VARIABLES
    op,      \* the function called: "none", "calc", "check", "group"
    pc,      \* "idle", "mapping", "grouping", "done" (returned), "threw"
    rows,    \* the caller's rows argument: [isArr, items], items the caller's objects
    ranges,  \* the caller's depthStartAndEnds argument: [kind, items]
    opt,     \* the caller's opt argument
    errs,    \* the messages of the raised Error, or checkDepthStartEnd's return value
    sorted,  \* calc: the sorted array, as references (1-based positions) into rows.items
    k,       \* calc: number of map callbacks already run
    ts,      \* group: the pool
    rs,      \* group: the groups built so far
    gi       \* group: number of ranges already processed

vars == <<op, pc, rows, ranges, opt, errs, sorted, k, ts, rs, gi>>

----------------------------------------------------------------------------
\* Bounds of the model.

MaxRows == 3
MaxRanges == 3

----------------------------------------------------------------------------
\* JavaScript values.

Num(n) == [t |-> "num", n |-> n]
Str(n) == [t |-> "str", n |-> n]
Bad == [t |-> "bad", n |-> 0]
Null == [t |-> "null", n |-> 0]
Absent == [t |-> "absent", n |-> 0]

\* wsemi isnum: a number, or a string that parses as one.
isnum(v) == v.t \in {"num", "str"}

\* wsemi cdbl: the value as a double, 0 when it is not isnum.
cdbl(v) == IF isnum(v) THEN v.n ELSE 0

\* wsemi isestr: a non-empty string ("" stands for an option not given).
isestr(s) == s # ""

\* wsemi isearr: an array with at least one element.
isearr(a) == a.isArr /\ Len(a.items) > 0

\* An array element that is null (or undefined) instead of a record.
NullEntry == ("null" :> Null)
IsNullish(v) == v = NullEntry

\* A record with no field at all.
EmptyRec == <<>>

\* lodash get(v, key, null) on a record held as a function of its field names:
\* null when v is nullish or has no such field.
get(v, key) ==
    IF IsNullish(v) THEN Null
    ELSE IF key \in DOMAIN v THEN v[key] ELSE Null

\* v[key] for a v that is not nullish (on null or undefined it is a TypeError).
prop(v, key) == IF key \in DOMAIN v THEN v[key] ELSE Absent

\* The positions 1..n in ascending order of keys, equal keys in position order:
\* position i is put behind every position already placed whose key is <= its own.
RECURSIVE InsertPos(_, _, _)
InsertPos(ord, i, keys) ==
    IF ord = <<>> THEN <<i>>
    ELSE IF keys[Head(ord)] <= keys[i]
         THEN <<Head(ord)>> \o InsertPos(Tail(ord), i, keys)
         ELSE <<i>> \o ord

RECURSIVE SortedPos(_, _)
SortedPos(n, keys) ==
    IF n = 0 THEN <<>> ELSE InsertPos(SortedPos(n - 1, keys), n, keys)

\* lodash sortBy: s in ascending order of its elements' sort keys, stable;
\* keys[i] is what the iteratee returns for s[i].
SortBy(s, keys) ==
    LET ord == SortedPos(Len(s), keys)
    IN  [p \in 1..Len(s) |-> s[ord[p]]]

\* An error message: its template (kind), the indices it cites (k1, k2; -1 when
\* the template has no such index), the raw value and the numbers it cites.
Msg(kind, k1, k2, raw, a, b) ==
    [kind |-> kind, k1 |-> k1, k2 |-> k2, raw |-> raw, a |-> a, b |-> b]

\* errs after an each() loop: pushed[p] are the messages the callback at position
\* p pushes, in order.
RECURSIVE Collect(_, _)
Collect(pushed, i) ==
    IF i > Len(pushed) THEN <<>> ELSE pushed[i] \o Collect(pushed, i + 1)

Range(s) == {s[i] : i \in DOMAIN s}


----------------------------------------------------------------------------
\* Options and inputs.

\* The opt objects a caller passes: {} and one that renames every field.
NoOpt == [keyDepth |-> "", keyDepthStart |-> "", keyDepthEnd |-> "", keyGroup |-> ""]
RenameOpt == [keyDepth |-> "dc", keyDepthStart |-> "ds", keyDepthEnd |-> "de",
              keyGroup |-> "group"]
Opts == {NoOpt, RenameOpt}

\* The option parsing shared by the three functions.
KeyDepth(o) == IF isestr(o.keyDepth) THEN o.keyDepth ELSE "depth"
KeyDepthStart(o) == IF isestr(o.keyDepthStart) THEN o.keyDepthStart ELSE "depthStart"
KeyDepthEnd(o) == IF isestr(o.keyDepthEnd) THEN o.keyDepthEnd ELSE "depthEnd"

\* Center depths a sample may carry (even, see the header), and the raw values
\* of a sample's depth field.
SampleVals == {Num(-2), Num(0), Num(4), Str(4), Num(6), Num(20), Bad}

\* A sample object: its depth under the caller's depth field, and "id", the
\* caller's other fields, which tell the samples apart.
Sample(o, i, raw) == ("id" :> i) @@ (KeyDepth(o) :> raw)

\* The rows arguments: something that is no array, or the array of the samples
\* whose depths are d[1], d[2], ...
NotArray == [isArr |-> FALSE, items |-> <<>>]
SampleArray(o, d) == [isArr |-> TRUE, items |-> [i \in DOMAIN d |-> Sample(o, i, d[i])]]

NoRanges == [kind |-> "none", items |-> <<>>]

Init ==
    /\ op = "none"
    /\ pc = "idle"
    /\ rows = NotArray
    /\ ranges = NoRanges
    /\ opt = NoOpt
    /\ errs = <<>>
    /\ sorted = <<>>
    /\ k = 0
    /\ ts = <<>>
    /\ rs = <<>>
    /\ gi = 0

----------------------------------------------------------------------------
\* calcDepthStartEndFromCenter

\* The validation stopping at the first sample whose depth is no number.
DepthNaNErrsFirst(items, keyDepth) ==
    LET bad == {p \in 1..Len(items) : ~isnum(get(items[p], keyDepth))}
    IN  IF bad = {} THEN <<>>
        ELSE LET p == CHOOSE q \in bad : \A x \in bad : q <= x
             IN  <<Msg("depthNaN", p - 1, -1, get(items[p], keyDepth), 0, 0)>>

\* "every sample's depth is a valid number": one message per offending sample.
DepthNaNErrs(items, keyDepth) ==
    Collect([p \in 1..Len(items) |->
                LET dc == get(items[p], keyDepth)
                IN  IF ~isnum(dc)
                    THEN <<Msg("depthNaN", p - 1, -1, dc, 0, 0)>>
                    ELSE <<>>],
            1)

\* The sorted array as references into items, ascending by cdbl(v[keyDepth]).
SortRefs(items, keyDepth) ==
    SortBy([i \in 1..Len(items) |-> i], [i \in 1..Len(items) |-> cdbl(prop(items[i], keyDepth))])

\* The re-scan of adjacent pairs of the sorted array: previous depth >= next.
DepthOrderErrs(items, srt, keyDepth) ==
    Collect([p \in 1..Len(srt) |->
                IF p - 1 = 0 THEN <<>>
                ELSE LET dc0 == cdbl(get(items[srt[p - 1]], keyDepth))
                         dc1 == cdbl(get(items[srt[p]], keyDepth))
                     IN  IF dc0 >= dc1
                         THEN <<Msg("depthGe", (p - 1) - 1, p - 1, Null, dc0, dc1)>>
                         ELSE <<>>],
            1)

Min(a, b) == IF a < b THEN a ELSE b

\* calcStart without the Math.min of the first sample: starts at 0 always.
calcStartNoMin(dc0, dc1, kk) ==
    IF kk = 0
    THEN Num(0)
    ELSE IF isnum(dc0) /\ isnum(dc1)
         THEN Num((cdbl(dc0) + cdbl(dc1)) \div 2)
         ELSE Null

\* ds of the map callback at JavaScript index kk.
calcStart(dc0, dc1, kk) ==
    IF kk = 0
    THEN IF isnum(dc1) THEN Num(Min(0, cdbl(dc1))) ELSE Num(0)
    ELSE IF isnum(dc0) /\ isnum(dc1)
         THEN Num((cdbl(dc0) + cdbl(dc1)) \div 2)
         ELSE Null

\* calcEnd ending every sample at its own depth, as the last one does.
calcEndOwnDepth(dc1, dc2, kk, up) ==
    IF isnum(dc1) THEN Num(cdbl(dc1)) ELSE Null

\* de of the map callback at JavaScript index kk, up the last index.
calcEnd(dc1, dc2, kk, up) ==
    IF kk = up
    THEN IF isnum(dc1) THEN Num(cdbl(dc1)) ELSE Null
    ELSE IF isnum(dc1) /\ isnum(dc2)
         THEN Num((cdbl(dc1) + cdbl(dc2)) \div 2)
         ELSE Null

\* The call with the order check moved behind the map: when it raises for
\* depths that do not increase, start and end are already on the caller's objects.
CalcCallMapsFirst(r, o) ==
    /\ pc = "idle"
    /\ op' = "calc"
    /\ opt' = o
    /\ UNCHANGED <<ranges, k, ts, rs, gi>>
    /\ IF ~isearr(r)
       THEN /\ pc' = "threw"
            /\ errs' = <<Msg("noData", -1, -1, Null, 0, 0)>>
            /\ sorted' = <<>>
            /\ rows' = r
       ELSE LET e1 == DepthNaNErrs(r.items, KeyDepth(o))
            IN  IF Len(e1) > 0
                THEN /\ pc' = "threw"
                     /\ errs' = e1
                     /\ sorted' = <<>>
                     /\ rows' = r
                ELSE LET srt == SortRefs(r.items, KeyDepth(o))
                         e2 == DepthOrderErrs(r.items, srt, KeyDepth(o))
                         dc(p) == IF p \in DOMAIN srt
                                  THEN get(r.items[srt[p]], KeyDepth(o)) ELSE Null
                         written == [i \in DOMAIN r.items |->
                             LET p == CHOOSE q \in DOMAIN srt : srt[q] = i
                             IN  (KeyDepthEnd(o) :> calcEnd(dc(p), dc(p + 1), p - 1, Len(srt) - 1))
                                 @@ (KeyDepthStart(o) :> calcStart(dc(p - 1), dc(p), p - 1))
                                 @@ r.items[i]]
                     IN  IF Len(e2) > 0
                         THEN /\ pc' = "threw"
                              /\ errs' = e2
                              /\ sorted' = <<>>
                              /\ rows' = [r EXCEPT !.items = written]
                         ELSE /\ pc' = "mapping"
                              /\ errs' = <<>>
                              /\ sorted' = srt
                              /\ rows' = r

\* The call up to the map: structural check, validation, sort, order check.
CalcCall(r, o) ==
    /\ pc = "idle"
    /\ op' = "calc"
    /\ rows' = r
    /\ opt' = o
    /\ UNCHANGED <<ranges, k, ts, rs, gi>>
    /\ IF ~isearr(r)
       THEN /\ pc' = "threw"
            /\ errs' = <<Msg("noData", -1, -1, Null, 0, 0)>>
            /\ sorted' = <<>>
       ELSE LET e1 == DepthNaNErrs(r.items, KeyDepth(o))
            IN  IF Len(e1) > 0
                THEN /\ pc' = "threw"
                     /\ errs' = e1
                     /\ sorted' = <<>>
                ELSE LET srt == SortRefs(r.items, KeyDepth(o))
                         e2 == DepthOrderErrs(r.items, srt, KeyDepth(o))
                     IN  IF Len(e2) > 0
                         THEN /\ pc' = "threw"
                              /\ errs' = e2
                              /\ sorted' = <<>>
                         ELSE /\ pc' = "mapping"
                              /\ errs' = <<>>
                              /\ sorted' = srt

\* One callback of the map over the sorted array: it writes ds and de onto the
\* caller's object; after the last one the sorted array is returned.
CalcStep ==
    /\ op = "calc"
    /\ pc = "mapping"
    /\ LET p == k + 1
           up == Len(sorted) - 1
           items == rows.items
           v1 == items[sorted[p]]
           dc0 == IF p - 1 >= 1 THEN get(items[sorted[p - 1]], KeyDepth(opt)) ELSE Null
           dc1 == get(v1, KeyDepth(opt))
           dc2 == IF p + 1 <= Len(sorted) THEN get(items[sorted[p + 1]], KeyDepth(opt)) ELSE Null
           ds == calcStart(dc0, dc1, k)
           de == calcEnd(dc1, dc2, k, up)
           w == (KeyDepthEnd(opt) :> de) @@ (KeyDepthStart(opt) :> ds) @@ v1
       IN  /\ rows' = [rows EXCEPT !.items[sorted[p]] = w]
           /\ k' = k + 1
           /\ pc' = IF k + 1 = Len(sorted) THEN "done" ELSE "mapping"
    /\ UNCHANGED <<op, ranges, opt, errs, sorted, ts, rs, gi>>

Calc ==
    /\ pc = "idle"
    /\ \E o \in Opts :
        \/ CalcCall(NotArray, o)
        \/ \E n \in 0..MaxRows : \E d \in [1..n -> SampleVals] :
               CalcCall(SampleArray(o, d), o)

NextCalc == Calc \/ CalcStep

SpecCalc == Init /\ [][NextCalc]_vars


----------------------------------------------------------------------------
\* checkDepthStartEnd

\* Raw values of the start and end fields of the records it is given.
CheckVals == {Num(0), Num(5), Num(10), Bad}

\* The elements of its rows: records with both fields, a record with neither,
\* and null.
CheckEntries(o) ==
    {(KeyDepthStart(o) :> s) @@ (KeyDepthEnd(o) :> e) : s \in CheckVals, e \in CheckVals}
        \cup {EmptyRec, NullEntry}

\* judge of dm.mjs: the comparison named by rel, on the exact numbers.
judge(a, rel, b) ==
    CASE rel = ">" -> a > b
      [] rel = "!==" -> a # b

\* "every sample's start and end is a valid number": up to two messages a record.
StartEndNaNErrs(items, keyDepthStart, keyDepthEnd) ==
    Collect([p \in 1..Len(items) |->
                LET ds == get(items[p], keyDepthStart)
                    de == get(items[p], keyDepthEnd)
                IN  (IF ~isnum(ds) THEN <<Msg("startNaN", p - 1, -1, ds, 0, 0)>> ELSE <<>>)
                    \o (IF ~isnum(de) THEN <<Msg("endNaN", p - 1, -1, de, 0, 0)>> ELSE <<>>)],
            1)

\* The discontinuity message numbering the pair from 0: the previous record
\* kk - 1, the next one kk.
PairErrZeroBased(kk, de0, ds1) ==
    IF judge(de0, "!==", ds1)
    THEN <<Msg("endNeStart", kk - 1, kk, Null, de0, ds1)>>
    ELSE <<>>

\* The discontinuity message of the callback at JavaScript index kk >= 1, de0
\* the end of the record at kk - 1 and ds1 the start of the record at kk.
PairErr(kk, de0, ds1) ==
    IF judge(de0, "!==", ds1)
    THEN <<Msg("endNeStart", kk, kk + 1, Null, de0, ds1)>>
    ELSE <<>>

\* The scan of the sorted records: start > end, and previous end # next start.
StartEndOrderErrs(srt, keyDepthStart, keyDepthEnd) ==
    Collect([p \in 1..Len(srt) |->
                LET ds1 == cdbl(get(srt[p], keyDepthStart))
                    de1 == cdbl(get(srt[p], keyDepthEnd))
                IN  (IF judge(ds1, ">", de1)
                     THEN <<Msg("startGtEnd", p - 1, -1, Null, ds1, de1)>>
                     ELSE <<>>)
                    \o (IF p - 1 = 0 THEN <<>>
                        ELSE PairErr(p - 1, cdbl(get(srt[p - 1], keyDepthEnd)), ds1))],
            1)

\* The whole function.  The iteratee of sortBy reads v[keyDepthStart] of every
\* element, which is a TypeError on an element that is null.
CheckCall(r, o) ==
    /\ pc = "idle"
    /\ op' = "check"
    /\ rows' = r
    /\ opt' = o
    /\ UNCHANGED <<ranges, k, ts, rs, gi>>
    /\ IF ~isearr(r)
       THEN /\ pc' = "done"
            /\ errs' = <<>>
            /\ sorted' = <<>>
       ELSE LET e1 == StartEndNaNErrs(r.items, KeyDepthStart(o), KeyDepthEnd(o))
            IN  IF \E p \in DOMAIN r.items : IsNullish(r.items[p])
                THEN /\ pc' = "threw"
                     /\ errs' = <<Msg("TypeError", -1, -1, Null, 0, 0)>>
                     /\ sorted' = <<>>
                ELSE LET refs == SortBy([i \in 1..Len(r.items) |-> i],
                                        [i \in 1..Len(r.items) |->
                                            cdbl(prop(r.items[i], KeyDepthStart(o)))])
                         srt == [p \in 1..Len(refs) |-> r.items[refs[p]]]
                     IN  /\ pc' = "done"
                         /\ errs' = e1 \o StartEndOrderErrs(srt, KeyDepthStart(o), KeyDepthEnd(o))
                         /\ sorted' = refs

Check ==
    /\ pc = "idle"
    /\ \E o \in Opts :
        \/ CheckCall(NotArray, o)
        \/ \E n \in 0..MaxRows : \E d \in [1..n -> CheckEntries(o)] :
               CheckCall([isArr |-> TRUE, items |-> d], o)

NextCheck == Check

SpecCheck == Init /\ [][NextCheck]_vars

----------------------------------------------------------------------------
\* groupByDepthStartEnd

\* Raw depths of the samples it is given, and the numbers a target range
\* starts and ends at.
GroupSampleVals == {Num(0), Num(2), Str(4), Bad}
RangeVals == {Num(0), Num(4)}

\* A target range record under the caller's field names.
RangeRec(o, s, e) == (KeyDepthStart(o) :> s) @@ (KeyDepthEnd(o) :> e)

\* The target ranges: every start and end of RangeVals (start above end
\* included), one range whose start is no number and one whose end is none.
RangeRecs(o) ==
    {RangeRec(o, s, e) : s \in RangeVals, e \in RangeVals}
        \cup {RangeRec(o, Bad, Num(4)), RangeRec(o, Num(0), Bad)}

\* The depthStartAndEnds arguments: an array of range records, one range
\* record, or something that is neither (null, {}, a string, ...).
RangeArray(d) == [kind |-> "arr", items |-> d]
RangeObject(v) == [kind |-> "obj", items |-> <<v>>]

\* wsemi isearr and iseobj on depthStartAndEnds.
isearrRanges(d) == d.kind = "arr" /\ Len(d.items) > 0
iseobj(d) == d.kind = "obj"

\* checkDepth.mjs on the sorted samples: one violation for every adjacent pair
\* whose depths do not increase.
checkDepth(srt, keyDepth) ==
    Collect([p \in 1..Len(srt) |->
                IF p - 1 = 0 THEN <<>>
                ELSE LET dc0 == cdbl(get(srt[p - 1], keyDepth))
                         dc1 == cdbl(get(srt[p], keyDepth))
                     IN  IF dc0 >= dc1
                         THEN <<Msg("depthGe", (p - 1) - 1, p - 1, Null, dc0, dc1)>>
                         ELSE <<>>],
            1)

\* "start and end of every range is a valid number": up to two messages a range.
RangeNaNErrs(dse, keyDepthStart, keyDepthEnd) ==
    Collect([p \in 1..Len(dse) |->
                LET ds == get(dse[p], keyDepthStart)
                    de == get(dse[p], keyDepthEnd)
                IN  (IF ~isnum(ds) THEN <<Msg("rangeStartNaN", p - 1, -1, ds, 0, 0)>> ELSE <<>>)
                    \o (IF ~isnum(de) THEN <<Msg("rangeEndNaN", p - 1, -1, de, 0, 0)>> ELSE <<>>)],
            1)

\* The pair check rejecting a range that starts where the previous one ends.
RangePairErrNoTouch(kk, de0, ds1) ==
    IF de0 >= ds1
    THEN <<Msg("rangeEndGtStart", kk, kk + 1, Null, de0, ds1)>>
    ELSE <<>>

\* The pair check of the callback at JavaScript index kk >= 1: the end of the
\* previous range must not exceed the start of this one.
RangePairErr(kk, de0, ds1) ==
    IF de0 > ds1
    THEN <<Msg("rangeEndGtStart", kk, kk + 1, Null, de0, ds1)>>
    ELSE <<>>

\* The scan of the ranges in their given order: start > end, previous end > start.
RangeOrderErrs(dse, keyDepthStart, keyDepthEnd) ==
    Collect([p \in 1..Len(dse) |->
                LET ds1 == cdbl(get(dse[p], keyDepthStart))
                    de1 == cdbl(get(dse[p], keyDepthEnd))
                IN  (IF ds1 > de1
                     THEN <<Msg("rangeStartGtEnd", p - 1, -1, Null, ds1, de1)>>
                     ELSE <<>>)
                    \o (IF p - 1 = 0 THEN <<>>
                        ELSE RangePairErr(p - 1, cdbl(get(dse[p - 1], keyDepthEnd)), ds1))],
            1)

\* The stages that look at the samples only: the isnum check of every depth,
\* then the sort of the clones and checkDepth.  errs is what the first failing
\* stage raises (<<>> when none does), srt the sorted clones.
SampleStages(r, o) ==
    LET e1 == DepthNaNErrs(r.items, KeyDepth(o))
    IN  IF Len(e1) > 0 THEN [errs |-> e1, srt |-> <<>>]
        ELSE LET srt == SortBy(r.items, [i \in 1..Len(r.items) |->
                                            cdbl(prop(r.items[i], KeyDepth(o)))])
             IN  [errs |-> checkDepth(srt, KeyDepth(o)), srt |-> srt]

\* The call up to the grouping loop: structural checks, the validation stages
\* (each raising what it collected), the sort, and the two clones ts and rs.
\* st is SampleStages(r, o).
GroupCall(r, d, o, st) ==
    /\ pc = "idle"
    /\ op' = "group"
    /\ rows' = r
    /\ ranges' = d
    /\ opt' = o
    /\ UNCHANGED <<sorted, k>>
    /\ LET Throw(e) == /\ pc' = "threw"
                       /\ errs' = e
                       /\ ts' = <<>>
                       /\ rs' = <<>>
                       /\ gi' = 0
       IN
       IF ~isearr(r) THEN Throw(<<Msg("noData", -1, -1, Null, 0, 0)>>)
       ELSE IF ~isearrRanges(d) /\ ~iseobj(d)
            THEN Throw(<<Msg("noRanges", -1, -1, Null, 0, 0)>>)
       ELSE IF Len(st.errs) > 0 THEN Throw(st.errs)
       ELSE LET dse == d.items
                e2 == RangeNaNErrs(dse, KeyDepthStart(o), KeyDepthEnd(o))
            IN
       IF Len(e2) > 0 THEN Throw(e2)
       ELSE LET e3 == RangeOrderErrs(dse, KeyDepthStart(o), KeyDepthEnd(o)) IN
       IF Len(e3) > 0 THEN Throw(e3)
       ELSE /\ pc' = "grouping"
            /\ errs' = <<>>
            /\ ts' = st.srt
            /\ rs' = dse
            /\ gi' = 0

\* t[keyDepth] >= x, <= x, > x of JavaScript, t[keyDepth] compared as a number.
JsGe(raw, x) == isnum(raw) /\ raw.n >= x
JsLe(raw, x) == isnum(raw) /\ raw.n <= x
JsGt(raw, x) == isnum(raw) /\ raw.n > x

\* The membership test without its lower bound.
InRangeNoLower(rdc, ds, de) == JsLe(rdc, de)

\* The membership test with the start excluded.
InRangeOpenStart(rdc, ds, de) == JsGt(rdc, ds) /\ JsLe(rdc, de)

\* The membership test of the scan: rdc >= ds && rdc <= de.
InRange(rdc, ds, de) == JsGe(rdc, ds) /\ JsLe(rdc, de)

\* each(ts, ...) from position i on: the positions pushed onto rdels, the loop
\* left at the first sample deeper than de.
RECURSIVE Scan(_, _, _, _, _)
Scan(pool, i, keyDepth, ds, de) ==
    IF i > Len(pool) THEN <<>>
    ELSE LET rdc == prop(pool[i], keyDepth)
         IN  (IF InRange(rdc, ds, de) THEN <<i>> ELSE <<>>)
             \o (IF JsGt(rdc, de) THEN <<>> ELSE Scan(pool, i + 1, keyDepth, ds, de))

\* pullAt that removes nothing.
pullAtNothing(pool, rdels) == pool

\* pullAt that removes the first of the positions only.
pullAtFirst(pool, rdels) ==
    IF Len(rdels) = 0 THEN pool
    ELSE [q \in 1..(Len(pool) - 1) |-> IF q < rdels[1] THEN pool[q] ELSE pool[q + 1]]

\* lodash pullAt: the array without the elements at the positions rdels.
pullAt(pool, rdels) ==
    LET keep == {i \in DOMAIN pool : i \notin Range(rdels)}
        RECURSIVE Kept(_)
        Kept(i) == IF i > Len(pool) THEN <<>>
                   ELSE (IF i \in keep THEN <<pool[i]>> ELSE <<>>) \o Kept(i + 1)
    IN  Kept(1)

\* One callback of the map over rs: the scan of the pool for the range at
\* JavaScript index gi, v.rows, pullAt; after the last one rs is returned.
GroupStep ==
    /\ op = "group"
    /\ pc = "grouping"
    /\ LET v == rs[gi + 1]
           ds == cdbl(get(v, KeyDepthStart(opt)))
           de == cdbl(get(v, KeyDepthEnd(opt)))
           rdels == Scan(ts, 1, KeyDepth(opt), ds, de)
           rrows == [j \in 1..Len(rdels) |-> ts[rdels[j]]]
       IN  /\ rs' = [rs EXCEPT ![gi + 1] = ("rows" :> rrows) @@ v]
           /\ ts' = pullAt(ts, rdels)
           /\ gi' = gi + 1
           /\ pc' = IF gi + 1 = Len(rs) THEN "done" ELSE "grouping"
    /\ UNCHANGED <<op, rows, ranges, opt, errs, sorted, k>>

Group ==
    /\ pc = "idle"
    /\ \E o \in Opts :
        \E r \in {NotArray} \cup
                 {SampleArray(o, d) : d \in UNION {[1..n -> GroupSampleVals] : n \in 0..MaxRows}} :
            LET st == SampleStages(r, o)
            IN  \/ GroupCall(r, NoRanges, o, st)
                \/ \E v \in RangeRecs(o) : GroupCall(r, RangeObject(v), o, st)
                \/ \E n \in 0..MaxRanges : \E d \in [1..n -> RangeRecs(o)] :
                       GroupCall(r, RangeArray(d), o, st)

NextGroup == Group \/ GroupStep

SpecGroup == Init /\ [][NextGroup]_vars

\* The two functions that raise what their validation finds.
SpecRaising == Init /\ [][NextCalc \/ NextGroup]_vars

Next == NextCalc \/ NextCheck \/ NextGroup

Spec == Init /\ [][Next]_vars

----------------------------------------------------------------------------
\* Claims about calcDepthStartEndFromCenter.

\* The input: the depth of the caller's i-th sample, as a number.
InDepth(i) == cdbl(get(rows.items[i], KeyDepth(opt)))

\* The output: depth, start and end of the sample at sorted position p.
OutDepth(p) == InDepth(sorted[p])
OutStart(p) == get(rows.items[sorted[p]], KeyDepthStart(opt))
OutEnd(p) == get(rows.items[sorted[p]], KeyDepthEnd(opt))

\* The input is a non-empty array of samples with pairwise distinct numeric depths.
DistinctNumericInput ==
    /\ isearr(rows)
    /\ \A i \in DOMAIN rows.items : isnum(get(rows.items[i], KeyDepth(opt)))
    /\ \A i, j \in DOMAIN rows.items : i # j => InDepth(i) # InDepth(j)

\* C1: for a non-empty input with pairwise distinct numeric depths, in any
\* order, the call does not raise and returns the same samples in ascending
\* depth order with start(0) = min(0, depth(0)), start(i) the midpoint of
\* depth(i-1) and depth(i), end(n-1) = depth(n-1) and end(i) the midpoint of
\* depth(i) and depth(i+1).  (Twice the start or end is compared, so that the
\* statement does not divide.)
C1_MidpointLaw ==
    (op = "calc" /\ DistinctNumericInput) =>
        /\ pc # "threw"
        /\ pc = "done" =>
            LET n == Len(sorted)
            IN  /\ n = Len(rows.items)
                /\ Range(sorted) = DOMAIN rows.items
                /\ \A p \in 1..(n - 1) : OutDepth(p) < OutDepth(p + 1)
                /\ \A p \in 1..n :
                    /\ OutStart(p).t = "num"
                    /\ OutEnd(p).t = "num"
                    /\ OutStart(p).n * 2 =
                           IF p = 1 THEN 2 * Min(0, OutDepth(1))
                           ELSE OutDepth(p - 1) + OutDepth(p)
                    /\ OutEnd(p).n * 2 =
                           IF p = n THEN 2 * OutDepth(n)
                           ELSE OutDepth(p) + OutDepth(p + 1)

\* The documented example, given out of order: depths 20, 4, 6 come back as
\* 4 -> [0,5], 6 -> [5,13], 20 -> [13,20].
C1_Witness ==
    /\ op = "calc" /\ pc = "done"
    /\ [i \in DOMAIN rows.items |-> get(rows.items[i], KeyDepth(opt))] = <<Num(20), Num(4), Num(6)>>
    /\ sorted = <<2, 3, 1>>
    /\ [p \in 1..3 |-> <<OutStart(p).n, OutEnd(p).n>>] = <<<<0, 5>>, <<5, 13>>, <<13, 20>>>>

\* C2: in the returned array, the end of each sample equals the start of the
\* next one exactly.
C2_Contiguous ==
    (op = "calc" /\ pc = "done") =>
        \A p \in 1..(Len(sorted) - 1) :
            /\ OutEnd(p).t = "num"
            /\ OutEnd(p) = OutStart(p + 1)

\* A returned array of three samples, the first at a negative depth.
C2_Witness ==
    /\ op = "calc" /\ pc = "done"
    /\ Len(sorted) = 3
    /\ OutDepth(1) < 0
    /\ OutEnd(1) = OutStart(2) /\ OutEnd(2) = OutStart(3)

----------------------------------------------------------------------------
\* Claims about checkDepthStartEnd.

\* C8: checkDepthStartEnd never raises; it returns a list of violations, the
\* empty list when rows is no array or an empty one.
C8_NeverRaises ==
    (op = "check") =>
        /\ pc # "threw"
        /\ (pc = "done" /\ ~isearr(rows)) => errs = <<>>

\* Start and end, as numbers, of the record at position p of the records
\* sorted ascending by start.
SortedStart(p) == cdbl(get(rows.items[sorted[p]], KeyDepthStart(opt)))
SortedEnd(p) == cdbl(get(rows.items[sorted[p]], KeyDepthEnd(opt)))

\* The discontinuity violations that name their records a and b.
Discontinuities(a, b) ==
    {m \in DOMAIN errs : errs[m].kind = "endNeStart" /\ errs[m].k1 = a /\ errs[m].k2 = b}

\* sorted holds the records in ascending order of start, ties in input order.
SortedByStart ==
    /\ Len(sorted) = Len(rows.items)
    /\ Range(sorted) = DOMAIN rows.items
    /\ \A p \in 1..(Len(sorted) - 1) :
        \/ SortedStart(p) < SortedStart(p + 1)
        \/ (SortedStart(p) = SortedStart(p + 1) /\ sorted[p] < sorted[p + 1])

\* C9 as claimed: the adjacent records at 0-based sorted positions i-1 and i
\* whose end and start differ give exactly one discontinuity violation, naming
\* them sample i-1 and sample i; equal ones give none.  (p = i + 1 is the
\* 1-based position of the later record.)
C9_ZeroBasedLabels ==
    (op = "check" /\ pc = "done" /\ isearr(rows)) =>
        /\ SortedByStart
        /\ \A p \in 2..Len(sorted) :
            Cardinality(Discontinuities(p - 2, p - 1)) =
                IF SortedEnd(p - 1) # SortedStart(p) THEN 1 ELSE 0

\* C9 as amended: that violation names the earlier record sample i and the
\* later one sample i+1 (the pair is numbered from 1), cites the end and the
\* start that differ, and there is no other discontinuity violation.
C9_OneBasedLabels ==
    (op = "check" /\ pc = "done" /\ isearr(rows)) =>
        /\ SortedByStart
        /\ \A p \in 2..Len(sorted) :
            /\ Cardinality(Discontinuities(p - 1, p)) =
                   IF SortedEnd(p - 1) # SortedStart(p) THEN 1 ELSE 0
            /\ \A m \in Discontinuities(p - 1, p) :
                   errs[m].a = SortedEnd(p - 1) /\ errs[m].b = SortedStart(p)
        /\ \A m \in DOMAIN errs :
               errs[m].kind = "endNeStart" => errs[m].k1 \in 1..(Len(sorted) - 1)

\* [[10,10],[0,5]], given deepest first: the one violation cites end 5 of
\* sample 1 and start 10 of sample 2.
C9_Witness ==
    /\ op = "check" /\ pc = "done"
    /\ Len(rows.items) = 2
    /\ sorted = <<2, 1>>
    /\ errs = <<Msg("endNeStart", 1, 2, Null, 5, 10)>>

----------------------------------------------------------------------------
\* Claims about groupByDepthStartEnd.

\* The input: start and end of the caller's j-th range, as numbers, and whether
\* the depth of the caller's i-th sample lies in it.
RStart(j) == cdbl(get(ranges.items[j], KeyDepthStart(opt)))
REnd(j) == cdbl(get(ranges.items[j], KeyDepthEnd(opt)))
Covers(j, i) == RStart(j) <= InDepth(i) /\ InDepth(i) <= REnd(j)

\* The output: the caller's i-th sample is in the sample list of the j-th group.
InGroup(i, j) == \E q \in DOMAIN rs[j]["rows"] : rs[j]["rows"][q] = rows.items[i]

\* The places of the output where the caller's i-th sample appears.
Occurrences(i) ==
    {<<j, q>> \in (DOMAIN rs) \X (1..Len(rows.items)) :
        q \in DOMAIN rs[j]["rows"] /\ rs[j]["rows"][q] = rows.items[i]}

Returned == op = "group" /\ pc = "done"

\* C3: when the call returns and every sample's depth lies in at least one
\* target range, every input sample is in exactly one group, once, and the
\* groups hold nothing else.
C3_Partition ==
    (Returned /\ \A i \in DOMAIN rows.items : \E j \in DOMAIN ranges.items : Covers(j, i)) =>
        /\ \A i \in DOMAIN rows.items : Cardinality(Occurrences(i)) = 1
        /\ \A j \in DOMAIN rs : \A q \in DOMAIN rs[j]["rows"] :
               rs[j]["rows"][q] \in Range(rows.items)

\* Three samples, given out of depth order, shared out over two groups.
C3_Witness ==
    /\ Returned
    /\ Len(rows.items) = 3
    /\ InDepth(1) > InDepth(2)
    /\ \A i \in DOMAIN rows.items : \E j \in DOMAIN ranges.items : Covers(j, i)
    /\ Len(rs) = 2
    /\ Len(rs[1]["rows"]) = 1 /\ Len(rs[2]["rows"]) = 2

\* Ranges a and b share the boundary depth d: the end of one is the start of
\* the other.
SharedBoundary(a, b, d) ==
    \/ (REnd(a) = d /\ RStart(b) = d)
    \/ (REnd(b) = d /\ RStart(a) = d)

\* C4 as claimed: of two ranges sharing a boundary depth d, a sample at depth d
\* is in the group of the one listed earlier and not in that of the later one.
C4_EarlierOfPair ==
    Returned =>
        \A a, b \in DOMAIN ranges.items : \A i \in DOMAIN rows.items :
            (a < b /\ SharedBoundary(a, b, InDepth(i))) =>
                InGroup(i, a) /\ ~InGroup(i, b)

\* C4 as amended: such a sample is never in the group of the later range; it is
\* in the group of the first listed range whose [start, end] contains d and in
\* no other, so in the earlier range of the pair exactly when no range listed
\* before it contains d.
C4_FirstMatchWins ==
    Returned =>
        \A a, b \in DOMAIN ranges.items : \A i \in DOMAIN rows.items :
            (a < b /\ SharedBoundary(a, b, InDepth(i))) =>
                /\ ~InGroup(i, b)
                /\ InGroup(i, a) <=> (\A c \in 1..(a - 1) : ~Covers(c, i))
                /\ \A j \in DOMAIN rs :
                       InGroup(i, j) <=> (Covers(j, i) /\ \A c \in 1..(j - 1) : ~Covers(c, i))

\* Ranges [0,4],[4,4] and a sample at depth 4: it is in the first group only.
C4_Witness ==
    /\ Returned
    /\ Len(ranges.items) = 2
    /\ RStart(1) = 0 /\ REnd(1) = 4 /\ RStart(2) = 4 /\ REnd(2) = 4
    /\ \E i \in DOMAIN rows.items :
           InDepth(i) = 4 /\ InGroup(i, 1) /\ ~InGroup(i, 2)

\* C5: the call returns one group per target range, in the given order, with
\* the range's start and end values as given and a sample list; the list of a
\* range containing no sample's depth is empty, and a sample whose depth is in
\* no range is in no group.
C5_OneGroupPerRange ==
    Returned =>
        /\ Len(rs) = Len(ranges.items)
        /\ \A j \in DOMAIN rs :
            /\ get(rs[j], KeyDepthStart(opt)) = get(ranges.items[j], KeyDepthStart(opt))
            /\ get(rs[j], KeyDepthEnd(opt)) = get(ranges.items[j], KeyDepthEnd(opt))
            /\ "rows" \in DOMAIN rs[j]
            /\ (\A i \in DOMAIN rows.items : ~Covers(j, i)) => rs[j]["rows"] = <<>>
        /\ \A i \in DOMAIN rows.items :
               (\A j \in DOMAIN ranges.items : ~Covers(j, i)) =>
                   \A j \in DOMAIN rs : ~InGroup(i, j)

\* Ranges [4,4],[4,4] and samples at 2 and 4: the first group holds the sample
\* at 4, the second group is empty, the sample at 2 is in no group.
C5_Witness ==
    /\ Returned
    /\ Len(rs) = 2
    /\ RStart(1) = 4 /\ RStart(2) = 4
    /\ Len(rs[1]["rows"]) = 1
    /\ rs[2]["rows"] = <<>>
    /\ \E i \in DOMAIN rows.items : InDepth(i) = 2 /\ \A j \in DOMAIN rs : ~InGroup(i, j)

\* The field the sample list is to be attached under: opt.keyGroup, "rows" when
\* it is not given.
GroupKey == IF isestr(opt.keyGroup) THEN opt.keyGroup ELSE "rows"

\* C6: every group carries its sample list under the field opt.keyGroup names,
\* and under the default field only when keyGroup is not given.
C6_KeyGroupField ==
    Returned =>
        \A j \in DOMAIN rs : DOMAIN rs[j] = {KeyDepthStart(opt), KeyDepthEnd(opt), GroupKey}

\* The malformed numeric fields of the input, and the elements the raised
\* messages of a kind cite (as 1-based positions).
MalformedSamples == {i \in DOMAIN rows.items : ~isnum(get(rows.items[i], KeyDepth(opt)))}
MalformedStarts == {j \in DOMAIN ranges.items : ~isnum(get(ranges.items[j], KeyDepthStart(opt)))}
MalformedEnds == {j \in DOMAIN ranges.items : ~isnum(get(ranges.items[j], KeyDepthEnd(opt)))}
Cited(kind) == {errs[m].k1 + 1 : m \in {x \in DOMAIN errs : errs[x].kind = kind}}

\* calc or group raised a validation error (not a structural one).
ValidationError ==
    /\ op \in {"calc", "group"}
    /\ pc = "threw"
    /\ errs[1].kind \notin {"noData", "noRanges"}

\* The sorted sample depths increase strictly.
SamplesDistinct == \A i, j \in DOMAIN rows.items : i # j => InDepth(i) # InDepth(j)

\* C7 as claimed: the raised validation error cites every malformed numeric
\* field of the input, sample depths and range starts and ends alike.
C7_AllDefects ==
    ValidationError =>
        /\ MalformedSamples \subseteq Cited("depthNaN")
        /\ MalformedStarts \subseteq Cited("rangeStartNaN")
        /\ MalformedEnds \subseteq Cited("rangeEndNaN")

\* C7 as amended: the raised validation error carries all the defects of the
\* first validation stage that fails, and only those: every malformed sample
\* depth when there is one; in groupByDepthStartEnd, when the sample depths are
\* valid and distinct, every malformed range start and end.
C7_StageDefects ==
    ValidationError =>
        /\ MalformedSamples # {} =>
            /\ Cited("depthNaN") = MalformedSamples
            /\ Len(errs) = Cardinality(MalformedSamples)
            /\ \A m \in DOMAIN errs : errs[m].kind = "depthNaN"
        /\ (MalformedSamples = {} /\ SamplesDistinct
                /\ MalformedStarts \cup MalformedEnds # {}) =>
            /\ Cited("rangeStartNaN") = MalformedStarts
            /\ Cited("rangeEndNaN") = MalformedEnds
            /\ Len(errs) = Cardinality(MalformedStarts) + Cardinality(MalformedEnds)

\* groupByDepthStartEnd raising for two malformed sample depths (of three) while
\* a range value is malformed too: the error cites the two samples only.
C7_Witness ==
    /\ ValidationError /\ op = "group"
    /\ Len(rows.items) = 3
    /\ MalformedSamples = {1, 3}
    /\ MalformedEnds = {2}
    /\ Cited("depthNaN") = {1, 3}
    /\ Len(errs) = 2

\* Every start and end of the target ranges is a number.
RangesNumeric == MalformedStarts = {} /\ MalformedEnds = {}

\* The target ranges, in their given order, are in order: no start above its
\* end and no end above the next start.
RangesInOrder ==
    /\ \A j \in DOMAIN ranges.items : RStart(j) <= REnd(j)
    /\ \A j \in 1..(Len(ranges.items) - 1) : REnd(j) <= RStart(j + 1)

\* C10: when the target ranges, as given, have a start above its end or an end
\* above the next range's start, the call raises, and a call that raises has
\* created no pool and no group; with valid samples, ranges in order (gaps and
\* touching ends included) are accepted and kept in their given order.
C10_GivenOrderChecked ==
    (op = "group") =>
        /\ (RangesNumeric /\ ~RangesInOrder) => pc = "threw"
        /\ pc = "threw" => (rs = <<>> /\ ts = <<>> /\ gi = 0)
        /\ (isearr(rows) /\ MalformedSamples = {} /\ SamplesDistinct
                /\ ranges.kind # "none" /\ ranges.items # <<>>
                /\ RangesNumeric /\ RangesInOrder) =>
            /\ pc # "threw"
            /\ Len(rs) = Len(ranges.items)
            /\ \A j \in DOMAIN rs :
                /\ get(rs[j], KeyDepthStart(opt)) = get(ranges.items[j], KeyDepthStart(opt))
                /\ get(rs[j], KeyDepthEnd(opt)) = get(ranges.items[j], KeyDepthEnd(opt))

\* Valid samples and the ranges [4,4],[0,0], deepest first: the call raises,
\* citing end 4 and start 0.
C10_Witness ==
    /\ op = "group" /\ pc = "threw"
    /\ Len(ranges.items) = 2
    /\ RangesNumeric
    /\ RStart(1) = 4 /\ REnd(1) = 4 /\ RStart(2) = 0 /\ REnd(2) = 0
    /\ errs = <<Msg("rangeEndGtStart", 1, 2, Null, 4, 0)>>

----------------------------------------------------------------------------
\* Claims about a call that raises, and about the pool of the grouping loop.

\* calcDepthStartEndFromCenter or groupByDepthStartEnd raised an error,
\* structural or validation.
Raised == op \in {"calc", "group"} /\ pc = "threw"

\* C11: whenever calcDepthStartEndFromCenter or groupByDepthStartEnd raises,
\* there is no partial output: every sample of the caller is the object it
\* passed (its own fields, no start or end written), every range of the caller
\* has its start and end and no sample list, no map callback has run, and no
\* sorted array, pool or group exists.
C11_RaisesBeforeWriting ==
    Raised =>
        /\ \A i \in DOMAIN rows.items :
               rows.items[i] = Sample(opt, i, get(rows.items[i], KeyDepth(opt)))
        /\ \A j \in DOMAIN ranges.items :
               DOMAIN ranges.items[j] = {KeyDepthStart(opt), KeyDepthEnd(opt)}
        /\ k = 0 /\ gi = 0
        /\ sorted = <<>> /\ ts = <<>> /\ rs = <<>>

\* calcDepthStartEndFromCenter raising at its last check, the one after the
\* sort, for three samples of which two have the same depth.
C11_Witness ==
    /\ Raised /\ op = "calc"
    /\ Len(rows.items) = 3
    /\ MalformedSamples = {}
    /\ InDepth(1) = InDepth(3) /\ InDepth(2) < InDepth(1)
    /\ Len(errs) = 1 /\ errs[1].kind = "depthGe"

\* The grouping loop is running or has returned; the depth of the sample at
\* position q of the pool; the caller's i-th sample is in the pool.
InLoop == op = "group" /\ pc \in {"grouping", "done"}
PoolDepth(q) == cdbl(get(ts[q], KeyDepth(opt)))
InPool(i) == \E q \in DOMAIN ts : ts[q] = rows.items[i]

\* C12: after each target range has been processed the pool is in strictly
\* ascending depth order and holds exactly the samples no processed range has
\* claimed; what a step claimed (and removed) is exactly the samples of the
\* pool it found with depth in [start, end]; no sample is claimed twice.
C12_PoolDepletes ==
    InLoop =>
        /\ \A q \in 1..(Len(ts) - 1) : PoolDepth(q) < PoolDepth(q + 1)
        /\ \A q \in DOMAIN ts : ts[q] \in Range(rows.items)
        /\ \A i \in DOMAIN rows.items : InPool(i) <=> (\A j \in 1..gi : ~InGroup(i, j))
        /\ \A j \in 1..gi : \A i \in DOMAIN rows.items :
               InGroup(i, j) <=> (Covers(j, i) /\ \A c \in 1..(j - 1) : ~InGroup(i, c))
        /\ \A i \in DOMAIN rows.items : \A a, b \in 1..gi :
               (InGroup(i, a) /\ InGroup(i, b)) => a = b
        /\ \A i \in DOMAIN rows.items : \A j \in 1..gi :
               Cardinality({q \in DOMAIN rs[j]["rows"] : rs[j]["rows"][q] = rows.items[i]}) <= 1

\* Between the two steps for the ranges [0,0],[0,4] and samples at 4, 0, 2: the
\* first has claimed the sample at 0, which the second range contains too; the
\* pool holds the other two, shallowest first.
C12_Witness ==
    /\ op = "group" /\ pc = "grouping" /\ gi = 1
    /\ Len(ranges.items) = 2
    /\ RStart(1) = 0 /\ REnd(1) = 0 /\ RStart(2) = 0 /\ REnd(2) = 4
    /\ Len(rows.items) = 3
    /\ InDepth(1) = 4 /\ InDepth(2) = 0 /\ InDepth(3) = 2
    /\ InGroup(2, 1) /\ Covers(2, 2)
    /\ Len(ts) = 2 /\ ts[1] = rows.items[3] /\ ts[2] = rows.items[1]

============================================================================
